---- MODULE Spec2Model ----
(***************************************************************************)
(* Model of src/index.ts: the type-introspection functions getType,        *)
(* getTypesOfItems, allItemsHaveTheSameType, getRealType,                  *)
(* getRealTypesOfItems, everyItemHasAUniqueRealType, countRealTypes and    *)
(* the harness helper areEqual.                                            *)
(*                                                                         *)
(* JavaScript strings that the code takes apart (the text produced by      *)
(* Object.prototype.toString, the regular-expression match, toLowerCase,   *)
(* the default sort order, JSON texts) are sequences of one-character      *)
(* strings.  A JavaScript value is named by the expression that produces   *)
(* it; what the runtime answers for it (typeof, its internal tag, its JSON *)
(* text) is tabulated from ECMA-262.  Arrays are objects with identity:    *)
(* heap[r] is the content of the array with reference r.  The arrays are   *)
(* dense: every index below the length holds an element.                   *)
(***************************************************************************)
EXTENDS Integers, Sequences, FiniteSets, TLC

VARIABLES
    heap,   \* heap[r]: the content of the array object with reference r
    input,  \* the content of the caller's array when the caller built it
    pc,     \* "idle" before the caller's call, "done" after it
    op,     \* the function called
    arg,    \* the index of the element handed over (0: the whole array)
    argB,   \* the second argument of areEqual
    ret     \* how the call completed: a value returned, or a throw

vars == <<heap, input, pc, op, arg, argB, ret>>

-----------------------------------------------------------------------------
(* Bounds *)

\* Longest array handed to the array functions.
MaxLen == 3

\* Longest array handed to areEqual (it takes two of them).
MaxEqLen == 2

-----------------------------------------------------------------------------
(* Characters and strings *)

Upper == <<"A", "B", "C", "D", "E", "F", "G", "H", "I", "J", "K", "L", "M", "N", "O", "P", "Q", "R", "S", "T", "U", "V", "W", "X", "Y", "Z">>

Lower == <<"a", "b", "c", "d", "e", "f", "g", "h", "i", "j", "k", "l", "m", "n", "o", "p", "q", "r", "s", "t", "u", "v", "w", "x", "y", "z">>

Digits == <<"0", "1", "2", "3", "4", "5", "6", "7", "8", "9">>

Range(s) == {s[i] : i \in 1..Len(s)}

IndexIn(s, c) == CHOOSE i \in 1..Len(s) : s[i] = c

IsUpper(c) == c \in Range(Upper)

IsLower(c) == c \in Range(Lower)

\* The character class [a-zA-Z] of the regular expression.
IsLetter(c) == IsUpper(c) \/ IsLower(c)

\* The character class \s (the only white space the modelled texts hold is " ").
IsSpace(c) == c = " "

\* UTF-16 code unit of a character (ASCII).
CodeUnit(c) ==
    IF IsUpper(c) THEN 64 + IndexIn(Upper, c)
    ELSE IF IsLower(c) THEN 96 + IndexIn(Lower, c)
    ELSE IF c \in Range(Digits) THEN 47 + IndexIn(Digits, c)
    ELSE CASE c = " " -> 32
           [] c = "\"" -> 34
           [] c = "," -> 44
           [] c = "-" -> 45
           [] c = "[" -> 91
           [] c = "\\" -> 92
           [] c = "]" -> 93
           [] c = "{" -> 123
           [] c = "}" -> 125

CharToLower(c) == IF IsUpper(c) THEN Lower[IndexIn(Upper, c)] ELSE c

\* Variant: the conversion to lower case left out.
toLowerCaseLeftOut(s) == s

\* String.prototype.toLowerCase
toLowerCase(s) == [i \in 1..Len(s) |-> CharToLower(s[i])]

Min(S) == CHOOSE x \in S : \A y \in S : x <= y

\* x < y in the order of Array.prototype.sort() without a comparator:
\* strings compared code unit by code unit, a proper prefix first.
StrLess(x, y) ==
    LET n == IF Len(x) < Len(y) THEN Len(x) ELSE Len(y)
        d == {i \in 1..n : x[i] # y[i]}
    IN  IF d = {} THEN Len(x) < Len(y)
        ELSE CodeUnit(x[Min(d)]) < CodeUnit(y[Min(d)])

\* All sequences over S of length at most n.
SeqsUpTo(S, n) == UNION {[1..k -> S] : k \in 0..n}

-----------------------------------------------------------------------------
(* JavaScript values, named by the expression that produces them *)

Values ==
    { "true", "1", "'1'", "NaN", "Infinity", "-Infinity", "[]", "{}",
      "null", "undefined", "new Uint8Array(0)",
      "{[Symbol.toStringTag]:'constructor'}",
      "{[Symbol.toStringTag]:''}",
      "{[Symbol.toStringTag]:'8bit'}" }

\* The primitives the harness compares with areEqual.
EqValues == {"true", "1", "'1'", "NaN", "null", "undefined"}

\* typeof value
TypeofOperator(value) ==
    CASE value = "true" -> "boolean"
      [] value \in {"1", "NaN", "Infinity", "-Infinity"} -> "number"
      [] value = "'1'" -> "string"
      [] value = "undefined" -> "undefined"
      [] OTHER -> "object"

\* The tag Object.prototype.toString puts after "[object ": the built-in
\* tag of the value, or its Symbol.toStringTag property when that is a string.
InternalTag(value) ==
    CASE value = "true" -> <<"B", "o", "o", "l", "e", "a", "n">>
      [] value \in {"1", "NaN", "Infinity", "-Infinity"} ->
            <<"N", "u", "m", "b", "e", "r">>
      [] value = "'1'" -> <<"S", "t", "r", "i", "n", "g">>
      [] value = "[]" -> <<"A", "r", "r", "a", "y">>
      [] value = "{}" -> <<"O", "b", "j", "e", "c", "t">>
      [] value = "null" -> <<"N", "u", "l", "l">>
      [] value = "undefined" -> <<"U", "n", "d", "e", "f", "i", "n", "e", "d">>
      [] value = "new Uint8Array(0)" ->
            <<"U", "i", "n", "t", "8", "A", "r", "r", "a", "y">>
      [] value = "{[Symbol.toStringTag]:''}" -> <<>>
      [] value = "{[Symbol.toStringTag]:'8bit'}" -> <<"8", "b", "i", "t">>
      [] value = "{[Symbol.toStringTag]:'constructor'}" ->
            <<"c", "o", "n", "s", "t", "r", "u", "c", "t", "o", "r">>

\* Object.prototype.toString.call(value)
ObjectPrototypeToString(value) ==
    <<"[", "o", "b", "j", "e", "c", "t", " ">> \o InternalTag(value) \o <<"]">>

\* Number.isNaN(value): true of the number NaN alone, without coercion.
NumberIsNaN(value) == value = "NaN"

\* value === Infinity
IsPositiveInfinity(value) == value = "Infinity"

\* The number of letters s holds from position i on, without a gap.
RECURSIVE LetterRun(_, _)
LetterRun(s, i) ==
    IF i > Len(s) \/ ~IsLetter(s[i]) THEN 0 ELSE 1 + LetterRun(s, i + 1)

\* s.match(/\s([a-zA-Z]+)/): the leftmost white space that a letter follows,
\* and in group 1 the longest run of letters after it; null (matched = FALSE)
\* when the text holds no such place.
RegExpMatch(s) ==
    LET at == {i \in 1..(Len(s) - 1) : IsSpace(s[i]) /\ IsLetter(s[i + 1])}
    IN  IF at = {} THEN [matched |-> FALSE, group1 |-> <<>>]
        ELSE [matched |-> TRUE,
              group1 |-> SubSeq(s, Min(at) + 1, Min(at) + LetterRun(s, Min(at) + 1))]

\* A completion of a call: a value returned, or a TypeError thrown.
Returned(v) == [threw |-> FALSE, val |-> v]

Thrown == [threw |-> TRUE, val |-> <<>>]

NaNTag == <<"N", "a", "N">>

InfinityTag == <<"I", "n", "f", "i", "n", "i", "t", "y">>

\* typeof value (getType)
getType(value) == TypeofOperator(value)

\* getRealType: reading [1] of the null that match() returns throws a TypeError.
getRealType(value) ==
    IF NumberIsNaN(value) THEN Returned(NaNTag)
    ELSE IF IsPositiveInfinity(value) THEN Returned(InfinityTag)
    ELSE LET m == RegExpMatch(ObjectPrototypeToString(value))
         IN  IF ~m.matched THEN Thrown
             ELSE Returned(toLowerCase(m.group1))

-----------------------------------------------------------------------------
(* Arrays *)

\* The outcome of a call on the heap h: the heap it leaves, and its completion.
Outcome(h, c) == [heap |-> h, threw |-> c.threw, val |-> c.val]

\* The array Array.prototype.map writes its results to: a new array object.
MapTarget(h, r) == Len(h) + 1

Store(h, t, s) == IF t > Len(h) THEN Append(h, s) ELSE [h EXCEPT ![t] = s]

\* h[r].map(f), with f[value] the completion of the callback on value; val
\* is the reference of the array returned.  The callback is applied in index
\* order and an exception it throws ends the call; the array under
\* construction is then unreachable and left out of the heap.
ArrayMap(h, r, f) ==
    LET src == h[r]
        out == [i \in 1..Len(src) |-> f[src[i]]]
    IN  IF \E i \in 1..Len(src) : out[i].threw THEN Outcome(h, Thrown)
        ELSE LET t == MapTarget(h, r)
             IN  Outcome(Store(h, t, [i \in 1..Len(src) |-> out[i].val]), Returned(t))

\* s with x put before the first element greater than x.
RECURSIVE InsertSorted(_, _)
InsertSorted(s, x) ==
    IF s = <<>> THEN <<x>>
    ELSE IF StrLess(x, Head(s)) THEN <<x>> \o s
    ELSE <<Head(s)>> \o InsertSorted(Tail(s), x)

RECURSIVE SortStrings(_)
SortStrings(s) ==
    IF s = <<>> THEN <<>>
    ELSE InsertSorted(SortStrings(SubSeq(s, 1, Len(s) - 1)), s[Len(s)])

\* h[r].sort(): sorts the array r itself and returns r.
ArraySort(h, r) == Outcome([h EXCEPT ![r] = SortStrings(h[r])], Returned(r))

\* new Set(array).size
SetSize(s) == Cardinality(Range(s))

-----------------------------------------------------------------------------
(* The object countRealTypes counts in: its own properties, in the order   *)
(* they were created.  The keys set are tags, which hold letters only, so  *)
(* none is an integer index that Object.entries would list first.          *)

\* The properties of Object.prototype, which {} inherits, whose names are
\* made of letters; each holds a function.
ObjectPrototypeKeys ==
    { <<"c", "o", "n", "s", "t", "r", "u", "c", "t", "o", "r">>,
      <<"h", "a", "s", "O", "w", "n", "P", "r", "o", "p", "e", "r", "t", "y">>,
      <<"i", "s", "P", "r", "o", "t", "o", "t", "y", "p", "e", "O", "f">>,
      <<"p", "r", "o", "p", "e", "r", "t", "y", "I", "s", "E", "n", "u", "m",
        "e", "r", "a", "b", "l", "e">>,
      <<"t", "o", "L", "o", "c", "a", "l", "e", "S", "t", "r", "i", "n", "g">>,
      <<"t", "o", "S", "t", "r", "i", "n", "g">>,
      <<"v", "a", "l", "u", "e", "O", "f">> }

\* What a property read or an expression yields: a number n, undefined, a
\* function, or the string made of the source text of the function Object
\* ("function Object() { [native code] }") followed by n digits "1".
NumberValue(n) == [type |-> "number", n |-> n]

UndefinedValue == [type |-> "undefined", n |-> 0]

FunctionValue == [type |-> "function", n |-> 0]

StringValue(n) == [type |-> "string", n |-> n]

HasOwn(obj, key) == \E i \in 1..Len(obj) : obj[i][1] = key

\* obj[key]: the own property, else the one inherited from Object.prototype.
ObjectGet(obj, key) ==
    IF HasOwn(obj, key)
    THEN obj[CHOOSE i \in 1..Len(obj) : obj[i][1] = key][2]
    ELSE IF key \in ObjectPrototypeKeys THEN FunctionValue
    ELSE UndefinedValue

\* obj[key] = v
ObjectSet(obj, key, v) ==
    IF HasOwn(obj, key)
    THEN [i \in 1..Len(obj) |-> IF obj[i][1] = key THEN <<key, v>> ELSE obj[i]]
    ELSE Append(obj, <<key, v>>)

\* x || 0
OrZero(x) ==
    IF x.type = "undefined" \/ (x.type = "number" /\ x.n = 0)
    THEN NumberValue(0) ELSE x

\* x + 1: addition of numbers; with a function or a string on the left,
\* concatenation of its text and "1".
PlusOne(x) ==
    CASE x.type = "number" -> NumberValue(x.n + 1)
      [] x.type = "function" -> StringValue(1)
      [] x.type = "string" -> StringValue(x.n + 1)

\* types.forEach((type) => { result[type] = (result[type] || 0) + 1; })
RECURSIVE ForEachCount(_, _)
ForEachCount(result, types) ==
    IF types = <<>> THEN result
    ELSE ForEachCount(
            ObjectSet(result, Head(types), PlusOne(OrZero(ObjectGet(result, Head(types))))),
            Tail(types))

\* Object.entries(obj)
ObjectEntries(obj) == obj

-----------------------------------------------------------------------------
(* The functions of src/index.ts *)

\* getType as a callback: it returns for every value.
Types == [value \in Values |-> Returned(getType(value))]

getTypesOfItems(h, arr) == ArrayMap(h, arr, Types)

\* Variant: "at most one type" (size <= 1) instead of "exactly one".
allItemsHaveTheSameTypeAtMostOne(h, arr) ==
    LET types == getTypesOfItems(h, arr)
    IN  Outcome(types.heap, Returned(SetSize(types.heap[types.val]) <= 1))

allItemsHaveTheSameType(h, arr) ==
    LET types == getTypesOfItems(h, arr)
    IN  Outcome(types.heap, Returned(SetSize(types.heap[types.val]) = 1))

\* getRealType is deterministic and reads nothing but its argument: its
\* completion for each value, computed once.
RealTypes == [value \in Values |-> getRealType(value)]

RealTypeOf(value) == RealTypes[value]

getRealTypesOfItems(h, arr) == ArrayMap(h, arr, RealTypes)

everyItemHasAUniqueRealType(h, arr) ==
    LET types == getRealTypesOfItems(h, arr)
    IN  IF types.threw THEN types
        ELSE Outcome(types.heap,
                     Returned(SetSize(types.heap[types.val]) = Len(types.heap[arr])))

\* String(value), the key of the default sort order.
ToStringValue(value) ==
    CASE value = "true" -> <<"t", "r", "u", "e">>
      [] value \in {"1", "'1'"} -> <<"1">>
      [] value = "NaN" -> NaNTag
      [] value = "Infinity" -> InfinityTag
      [] value = "-Infinity" -> <<"-">> \o InfinityTag
      [] value = "null" -> <<"n", "u", "l", "l">>
      [] value \in {"[]", "new Uint8Array(0)"} -> <<>>
      [] OTHER -> ObjectPrototypeToString(value)

\* The default sort order on values: by String(value), undefined last.
ValueLess(x, y) ==
    /\ x # "undefined"
    /\ (y = "undefined" \/ StrLess(ToStringValue(x), ToStringValue(y)))

RECURSIVE InsertValue(_, _)
InsertValue(s, x) ==
    IF s = <<>> THEN <<x>>
    ELSE IF ValueLess(x, Head(s)) THEN <<x>> \o s
    ELSE <<Head(s)>> \o InsertValue(Tail(s), x)

RECURSIVE SortValues(_)
SortValues(s) ==
    IF s = <<>> THEN <<>>
    ELSE InsertValue(SortValues(SubSeq(s, 1, Len(s) - 1)), s[Len(s)])

\* Variant: getRealTypesOfItems(arr.sort()), which sorts the caller's array
\* before it maps it, instead of sorting the mapped array.
countRealTypesSortingInput(h, arr) ==
    LET before == [h EXCEPT ![arr] = SortValues(h[arr])]
        types == getRealTypesOfItems(before, arr)
    IN  IF types.threw THEN types
        ELSE LET result == ForEachCount(<<>>, types.heap[types.val])
             IN  Outcome(types.heap, Returned(ObjectEntries(result)))

countRealTypes(h, arr) ==
    LET types == getRealTypesOfItems(h, arr)
    IN  IF types.threw THEN types
        ELSE LET sorted == ArraySort(types.heap, types.val)
                 result == ForEachCount(<<>>, sorted.heap[sorted.val])
             IN  Outcome(sorted.heap, Returned(ObjectEntries(result)))

-----------------------------------------------------------------------------
(* The harness helper areEqual *)

\* The JSON text of an array element; NaN and undefined are written as null.
JSONElement(value) ==
    CASE value = "true" -> <<"t", "r", "u", "e">>
      [] value = "1" -> <<"1">>
      [] value = "'1'" -> <<"\"", "1", "\"">>
      [] value \in {"NaN", "null", "undefined"} -> <<"n", "u", "l", "l">>

RECURSIVE JoinElements(_)
JoinElements(s) ==
    IF s = <<>> THEN <<>>
    ELSE IF Len(s) = 1 THEN JSONElement(s[1])
    ELSE JSONElement(Head(s)) \o <<",">> \o JoinElements(Tail(s))

\* JSON.stringify(array)
JSONStringify(s) == <<"[">> \o JoinElements(s) \o <<"]">>

\* An argument of areEqual: an array (v its content) or a primitive (v its name).
ArrayArg(s) == [isArray |-> TRUE, v |-> s]

ValueArg(value) == [isArray |-> FALSE, v |-> value]

\* a === b: two primitives by value; an array is identical to no primitive,
\* and the case of two arrays is decided before === is reached.
StrictEquals(a, b) ==
    /\ ~a.isArray
    /\ ~b.isArray
    /\ a.v = b.v
    /\ a.v # "NaN"

areEqual(a, b) ==
    IF a.isArray /\ b.isArray
    THEN IF Len(a.v) # Len(b.v) THEN FALSE
         ELSE IF Len(a.v) = 0 THEN FALSE
         ELSE JSONStringify(a.v) = JSONStringify(b.v)
    ELSE StrictEquals(a, b)

-----------------------------------------------------------------------------
(* The caller: it holds one array, heap[1], and makes one call *)

Arr == 1

Init ==
    /\ input \in SeqsUpTo(Values, MaxLen)
    /\ heap = <<input>>
    /\ pc = "idle"
    /\ op = "none"
    /\ arg = 0
    /\ argB = ArrayArg(<<>>)
    /\ ret = Returned(<<>>)

Finish(name, out) ==
    /\ op' = name
    /\ heap' = out.heap
    /\ ret' = [threw |-> out.threw, val |-> out.val]
    /\ pc' = "done"
    /\ UNCHANGED input

\* getRealType(heap[Arr][i])
CallGetRealType ==
    /\ pc = "idle"
    /\ \E i \in 1..Len(heap[Arr]) :
          /\ arg' = i
          /\ Finish("getRealType", Outcome(heap, RealTypeOf(heap[Arr][i])))
    /\ UNCHANGED argB

CallGetTypesOfItems ==
    /\ pc = "idle"
    /\ Finish("getTypesOfItems", getTypesOfItems(heap, Arr))
    /\ UNCHANGED <<arg, argB>>

CallAllItemsHaveTheSameType ==
    /\ pc = "idle"
    /\ Finish("allItemsHaveTheSameType", allItemsHaveTheSameType(heap, Arr))
    /\ UNCHANGED <<arg, argB>>

CallGetRealTypesOfItems ==
    /\ pc = "idle"
    /\ Finish("getRealTypesOfItems", getRealTypesOfItems(heap, Arr))
    /\ UNCHANGED <<arg, argB>>

CallEveryItemHasAUniqueRealType ==
    /\ pc = "idle"
    /\ Finish("everyItemHasAUniqueRealType", everyItemHasAUniqueRealType(heap, Arr))
    /\ UNCHANGED <<arg, argB>>

CallCountRealTypes ==
    /\ pc = "idle"
    /\ Finish("countRealTypes", countRealTypes(heap, Arr))
    /\ UNCHANGED <<arg, argB>>

\* areEqual(a, b): a is the caller's array (i = 0) or its element i, b an
\* array or a primitive.
AreEqualCall(i, b) ==
    LET a == IF i = 0 THEN ArrayArg(heap[Arr]) ELSE ValueArg(heap[Arr][i])
    IN  /\ arg' = i
        /\ argB' = b
        /\ Finish("areEqual", Outcome(heap, Returned(areEqual(a, b))))

CallAreEqual ==
    /\ pc = "idle"
    /\ heap[Arr] \in SeqsUpTo(EqValues, MaxEqLen)
    /\ \E i \in 0..Len(heap[Arr]) :
          \/ \E s \in SeqsUpTo(EqValues, MaxEqLen) : AreEqualCall(i, ArrayArg(s))
          \/ \E value \in EqValues : AreEqualCall(i, ValueArg(value))

Next ==
    \/ CallGetRealType
    \/ CallGetTypesOfItems
    \/ CallAllItemsHaveTheSameType
    \/ CallGetRealTypesOfItems
    \/ CallEveryItemHasAUniqueRealType
    \/ CallCountRealTypes
    \/ CallAreEqual

Spec == Init /\ [][Next]_vars

-----------------------------------------------------------------------------
(* What the specification says of a call, in terms of the input alone *)

\* The elements of the input that getRealType returns a tag for, and the tags.
Classified(s) == {i \in 1..Len(s) : ~RealTypeOf(s[i]).threw}

TagsOf(s) == {RealTypeOf(s[i]).val : i \in Classified(s)}

\* The number of elements of s that classify to tag.
Occurrences(s, tag) ==
    Cardinality({i \in Classified(s) : RealTypeOf(s[i]).val = tag})

ShallowTypesOf(s) == {TypeofOperator(s[i]) : i \in 1..Len(s)}

HasUpper(s) == \E i \in 1..Len(s) : IsUpper(s[i])

RECURSIVE SumCounts(_)
SumCounts(entries) ==
    IF entries = <<>> THEN 0 ELSE Head(entries)[2].n + SumCounts(Tail(entries))

\* The tag the specification's priority chain gives a value.
ChainTag(value) ==
    IF value = "NaN" THEN NaNTag
    ELSE IF value = "Infinity" THEN InfinityTag
    ELSE toLowerCase(InternalTag(value))

Called(name) == pc = "done" /\ op = name

-----------------------------------------------------------------------------
(* Claims *)

\* C1: getRealType is total: for every value, those with an empty internal
\* tag or one that does not start with a letter included, it returns a
\* non-empty tag and never throws.
C1_Total ==
    Called("getRealType") => ~ret.threw /\ Len(ret.val) > 0

\* C2: getRealType is a priority chain: NaN gives "NaN", otherwise +Infinity
\* gives "Infinity", otherwise the result is the internal tag of the value in
\* lower case ("number" for -Infinity, "null" for null, "undefined" for
\* undefined, "array" for an array, "object" for a plain object).
C2_PriorityChain ==
    Called("getRealType") =>
        /\ ~ret.threw
        /\ ret.val = ChainTag(input[arg])

\* C3: the entries countRealTypes returns have strictly ascending tags, one
\* entry for each tag getRealType gives some element and no other entry, so
\* that the result does not depend on the order of the elements.
C3_SortedEntries ==
    Called("countRealTypes") =>
        /\ ~ret.threw
        /\ \A i \in 1..(Len(ret.val) - 1) : StrLess(ret.val[i][1], ret.val[i + 1][1])
        /\ {ret.val[i][1] : i \in 1..Len(ret.val)} = TagsOf(input)
        /\ Classified(input) = 1..Len(input)

\* C4: each entry (tag, n) of countRealTypes has n the number of elements
\* that classify to tag, an integer >= 1, and the counts sum to the length
\* of the input.
C4_Counts ==
    Called("countRealTypes") =>
        /\ ~ret.threw
        /\ \A i \in 1..Len(ret.val) :
              /\ ret.val[i][2].type = "number"
              /\ ret.val[i][2].n >= 1
              /\ ret.val[i][2].n = Occurrences(input, ret.val[i][1])
        /\ SumCounts(ret.val) = Len(input)

\* C5: everyItemHasAUniqueRealType is true exactly when the number of
\* distinct tags of the elements equals the length of the input; it is true
\* of the empty array.
C5_UniqueIff ==
    Called("everyItemHasAUniqueRealType") =>
        /\ ~ret.threw
        /\ Classified(input) = 1..Len(input)
        /\ ret.val = (Cardinality(TagsOf(input)) = Len(input))
        /\ (input = <<>> => ret.val = TRUE)

\* C6: allItemsHaveTheSameType is true exactly when the typeof results of the
\* elements form a set of one member: false for the empty array, true for
\* every array of one element, true for elements of different tags and one
\* typeof.
C6_SameShallowType ==
    Called("allItemsHaveTheSameType") =>
        /\ ~ret.threw
        /\ ret.val = (Cardinality(ShallowTypesOf(input)) = 1)
        /\ (input = <<>> => ret.val = FALSE)
        /\ (Len(input) = 1 => ret.val = TRUE)

\* C6 witness: a number, NaN and Infinity have three tags and one typeof.
C6_Witness ==
    /\ Called("allItemsHaveTheSameType")
    /\ input = <<"1", "NaN", "Infinity">>
    /\ Cardinality(TagsOf(input)) = 3
    /\ ret.val = TRUE

\* C7: getRealTypesOfItems returns an array of the length of the input whose
\* i-th element is the tag of the i-th element of the input, duplicates kept.
C7_ClassifyAll ==
    Called("getRealTypesOfItems") =>
        /\ ~ret.threw
        /\ Len(heap[ret.val]) = Len(input)
        /\ \A i \in 1..Len(input) :
              /\ ~RealTypeOf(input[i]).threw
              /\ heap[ret.val][i] = RealTypeOf(input[i]).val

\* C8: every tag getRealType returns is "NaN", "Infinity", or a non-empty
\* string without an upper-case letter.
C8_LowerCase ==
    Called("getRealType") /\ ~ret.threw =>
        \/ ret.val \in {NaNTag, InfinityTag}
        \/ Len(ret.val) > 0 /\ ~HasUpper(ret.val)

\* C8 witness: the tag of a value whose internal tag has upper-case letters.
C8_Witness ==
    /\ Called("getRealType")
    /\ ~ret.threw
    /\ HasUpper(InternalTag(input[arg]))
    /\ ret.val \notin {NaNTag, InfinityTag}

\* C9: no array function changes the array it is handed: after the call the
\* caller's array holds the elements it held, in the same order.
C9_InputUnchanged ==
    /\ Called("getTypesOfItems") => heap[Arr] = input
    /\ Called("getRealTypesOfItems") => heap[Arr] = input
    /\ Called("allItemsHaveTheSameType") => heap[Arr] = input
    /\ Called("everyItemHasAUniqueRealType") => heap[Arr] = input
    /\ Called("countRealTypes") => heap[Arr] = input

\* C9 witness: countRealTypes has sorted the tags of an input that was not
\* in the order of its tags, and the input is as it was.
C9_Witness ==
    /\ Called("countRealTypes")
    /\ ~ret.threw
    /\ input = <<"{}", "true", "1">>
    /\ Len(heap) > Arr
    /\ heap[Len(heap)] = <<ChainTag("true"), ChainTag("1"), ChainTag("{}")>>
    /\ heap[Arr] = input

\* C10: areEqual on two arrays is true exactly when they have the same
\* length, that length is not zero, and their elements are equal index by
\* index.
C10_AreEqual ==
    Called("areEqual") /\ arg = 0 /\ argB.isArray =>
        ret.val = ( /\ Len(input) = Len(argB.v)
                    /\ Len(input) > 0
                    /\ \A i \in 1..Len(input) : input[i] = argB.v[i] )

====
